---- MODULE Spec2Model ----
(***************************************************************************)
(* State-machine model of mu/interface/models.py: the DeviceFileSystem     *)
(* list model (path, content, the list_files / delete / rename signals it  *)
(* emits and the completion slots the file manager calls back) and the     *)
(* ordering SortedFileSystem.lessThan imposes on its rows.                 *)
(*                                                                         *)
(* Strings are TLA+ strings; "/".join and + are string concatenation.      *)
(* Codes gives the code points of each name, for the case-insensitive      *)
(* comparison of the proxy.                                                *)
(***************************************************************************)
EXTENDS Integers, Sequences, FiniteSets, TLC

(* ---------------------------------------------------------------------- *)
(* Bounds                                                                  *)
(* ---------------------------------------------------------------------- *)
MaxLen == 2          \* entries of a listing the read-only queries are applied to
MaxDepth == 2        \* segments of path
MaxPending == 2      \* list requests in flight
MaxMut == 1          \* move requests in flight, and delete requests in flight

(* ---------------------------------------------------------------------- *)
(* Entries: the (name, is_directory, size) tuples of a listing             *)
(* ---------------------------------------------------------------------- *)
Name(e) == e[1]
IsDir(e) == e[2]
Size(e) == e[3]

\* the entry on_ls appends when the path is not empty
Marker == <<"..", TRUE, 1>>

\* what the device holds in a directory, for the request / response steps
DeviceEntries == { <<"alpha", TRUE, 0>>, <<"x.txt", FALSE, 5>> }

\* a larger directory, for the read-only queries
QueryEntries ==
    DeviceEntries \cup
        { <<"Beta", TRUE, 0>>, <<"b.txt", FALSE, 120>>, <<".", TRUE, 0>> }

\* new names typed by the user in a rename
Values == { "y.txt" }

\* names handed to do_delete
DeleteNames == { "x.txt" }

\* item data roles handed to setData
Roles == { "DisplayRole", "EditRole", "DecorationRole" }

\* the files argument of on_list_files: names are unique in a directory
Listings ==
    { l \in UNION { [1..n -> DeviceEntries] : n \in 0..Cardinality(DeviceEntries) } :
        \A i, j \in 1..Len(l) : i # j => Name(l[i]) # Name(l[j]) }

QueryListings ==
    { l \in UNION { [1..n -> QueryEntries] : n \in 0..MaxLen } :
        \A i, j \in 1..Len(l) : i # j => Name(l[i]) # Name(l[j]) }

\* rows a view can hand in: -1 is the row of the invalid index self.index(-1)
Rows == (-1)..Cardinality(DeviceEntries)

\* rows handed to the read-only queries
QueryRows == (0 - (MaxLen + 2))..(MaxLen + 1)

(* ---------------------------------------------------------------------- *)
(* State                                                                   *)
(* ---------------------------------------------------------------------- *)
VARIABLES
    path,       \* self.path: list of segment names
    content,    \* self.content: list of entries
    lsq,        \* list_files requests the file manager has not answered yet
    mvq,        \* number of rename requests not answered yet
    delq,       \* number of delete requests not answered yet
    listedFor,  \* argument of the list request whose answer came last
    proxy,      \* the rows of the SortedFileSystem proxy, in display order
    op,         \* the method that ran last
    arg,        \* its arguments
    out,        \* the signals it emitted, in order
    ret,        \* what it returned, or the exception it raised
    rt,         \* progress of an enter / list / enter-parent round trip
    inv,        \* invalidate calls and listings applied since
    lastLs      \* argument of the list request emitted last

vars == <<path, content, lsq, mvq, delq, listedFor, proxy, op, arg, out, ret, rt, inv,
          lastLs>>

(* ---------------------------------------------------------------------- *)
(* Python sequence primitives                                              *)
(* ---------------------------------------------------------------------- *)
\* s[i] is defined for -len(s) <= i < len(s); anything else raises IndexError
InRange(s, i) == (0 - Len(s)) <= i /\ i < Len(s)
PyAt(s, i) == IF i >= 0 THEN s[i + 1] ELSE s[Len(s) + i + 1]

RECURSIVE Join(_)
\* "/".join(p)
Join(p) ==
    IF Len(p) = 0 THEN ""
    ELSE IF Len(p) = 1 THEN p[1]
    ELSE p[1] \o "/" \o Join(Tail(p))

RemoveAt(s, i) == SubSeq(s, 1, i - 1) \o SubSeq(s, i + 1, Len(s))

(* ---------------------------------------------------------------------- *)
(* Signals                                                                 *)
(* ---------------------------------------------------------------------- *)
Sig(name, args) == [sig |-> name, args |-> args, rng |-> <<>>]
\* dataChanged(createIndex(r1, c1), createIndex(r2, c2))
DataChanged(r1, c1, r2, c2) ==
    [sig |-> "dataChanged", args |-> <<>>, rng |-> <<r1, c1, r2, c2>>]

Only(sigs, name) == SelectSeq(sigs, LAMBDA s : s.sig = name)
ListArgs(sigs) == [i \in 1..Len(Only(sigs, "list_files")) |->
                      Only(sigs, "list_files")[i].args[1]]

(* ---------------------------------------------------------------------- *)
(* DeviceFileSystem: what each method computes                             *)
(* ---------------------------------------------------------------------- *)
InvalidateEmits(p) == << Sig("list_files", <<Join(p)>>) >>

OnLsContent_always(files, p) == Append(files, Marker)
OnLsContent(files, p) ==
    IF Len(p) > 0 THEN Append(files, Marker) ELSE files

OnLsEmits(c) == << DataChanged(0, 0, 0, Len(c)) >>

OnLsFailContent == << >>
OnLsFailEmits_retry == << DataChanged(0, 0, 0, 0), Sig("list_files", <<Join(path)>>) >>
OnLsFailEmits == << DataChanged(0, 0, 0, 0) >>

DoDeleteEmits(p, file) == << Sig("delete", <<Join(p) \o "/" \o file>>) >>

OnDeleteEmits(p) == InvalidateEmits(p)
OnDeleteFailEmits_none(p) == << >>
OnDeleteFailEmits(p) == InvalidateEmits(p)
OnMvEmits_signal(p) == InvalidateEmits(p) \o << DataChanged(0, 0, 0, 0) >>
OnMvEmits(p) == InvalidateEmits(p)
OnMvFailEmits_none(p) == << >>
OnMvFailEmits(p) == InvalidateEmits(p)

\* path.pop() on an empty list raises IndexError
EnterRaises(p, e) == Name(e) = ".." /\ Len(p) = 0
EnterDirectoryPath_noParent(p, e) ==
    IF IsDir(e) THEN Append(p, Name(e)) ELSE p
EnterDirectoryPath(p, e) ==
    IF Name(e) = ".." THEN SubSeq(p, 1, Len(p) - 1)
    ELSE IF IsDir(e) THEN Append(p, Name(e))
    ELSE p

SetDataRenames(role) == role = "DisplayRole" \/ role = "EditRole"
SetDataEmits(p, name, value) ==
    << Sig("rename", << Join(p) \o "/" \o name, Join(p) \o "/" \o value >>) >>
        \o InvalidateEmits(p)


(* ---------------------------------------------------------------------- *)
(* SortedFileSystem: the order of the proxy's rows                         *)
(* ---------------------------------------------------------------------- *)
\* code points of the names that occur
Codes(n) ==
    CASE n = ".." -> <<46, 46>>
      [] n = "." -> <<46>>
      [] n = "alpha" -> <<97, 108, 112, 104, 97>>
      [] n = "x.txt" -> <<120, 46, 116, 120, 116>>
      [] n = "Beta" -> <<66, 101, 116, 97>>
      [] n = "b.txt" -> <<98, 46, 116, 120, 116>>

\* case folding of setSortCaseSensitivity(Qt.CaseInsensitive)
Fold(c) == IF 65 <= c /\ c <= 90 THEN c + 32 ELSE c

RECURSIVE LexLess(_, _)
LexLess(a, b) ==
    IF Len(b) = 0 THEN FALSE
    ELSE IF Len(a) = 0 THEN TRUE
    ELSE IF Fold(a[1]) < Fold(b[1]) THEN TRUE
    ELSE IF Fold(a[1]) > Fold(b[1]) THEN FALSE
    ELSE LexLess(Tail(a), Tail(b))

\* super().lessThan(left, right): the display strings, ignoring case
SuperLessThan(l, r) == LexLess(Codes(Name(l)), Codes(Name(r)))

LessThan_byNameOnly(l, r) ==
    IF Name(l) = ".." THEN TRUE
    ELSE IF Name(r) = ".." THEN FALSE
    ELSE SuperLessThan(l, r)
LessThan_markerLast(l, r) ==
    IF Name(l) = ".." THEN FALSE
    ELSE IF Name(r) = ".." THEN TRUE
    ELSE IF ~IsDir(l) /\ IsDir(r) THEN FALSE
    ELSE IF IsDir(l) /\ ~IsDir(r) THEN TRUE
    ELSE SuperLessThan(l, r)
\* SortedFileSystem.lessThan on the entries of two source rows
LessThan(l, r) ==
    IF Name(l) = ".." THEN TRUE
    ELSE IF Name(r) = ".." THEN FALSE
    ELSE IF ~IsDir(l) /\ IsDir(r) THEN FALSE
    ELSE IF IsDir(l) /\ ~IsDir(r) THEN TRUE
    ELSE SuperLessThan(l, r)

RECURSIVE InsertRow(_, _)
\* e goes before the first row it is less than (a stable sort)
InsertRow(s, e) ==
    IF Len(s) = 0 THEN <<e>>
    ELSE IF LessThan(e, s[1]) THEN <<e>> \o s
    ELSE <<s[1]>> \o InsertRow(Tail(s), e)

RECURSIVE SortRows(_)
\* sort(0) after the source's dataChanged: the source rows in ascending order
SortRows(c) ==
    IF Len(c) = 0 THEN << >>
    ELSE InsertRow(SortRows(SubSeq(c, 1, Len(c) - 1)), c[Len(c)])

(* ---------------------------------------------------------------------- *)
(* The methods as steps                                                    *)
(* ---------------------------------------------------------------------- *)
NoArg == [row |-> 0, row2 |-> 0, str |-> ""]
NoRT == [stage |-> 0, p |-> << >>]

\* the signals of sigs reach their slots: list_files, rename and delete are
\* queued to the file manager, dataChanged makes the proxy sort again
Routed(sigs, lsqBase, mvqBase, delqBase) ==
    /\ lsq' = lsqBase \o ListArgs(sigs)
    /\ mvq' = mvqBase + Len(Only(sigs, "rename"))
    /\ delq' = delqBase + Len(Only(sigs, "delete"))
    /\ proxy' = IF Len(Only(sigs, "dataChanged")) > 0 THEN SortRows(content')
                ELSE proxy
    /\ out' = sigs
    /\ lastLs' = IF ListArgs(sigs) = << >> THEN lastLs
                 ELSE ListArgs(sigs)[Len(ListArgs(sigs))]

Fits(sigs, lsqBase, mvqBase, delqBase) ==
    /\ Len(lsqBase) + Len(Only(sigs, "list_files")) <= MaxPending
    /\ mvqBase + Len(Only(sigs, "rename")) <= MaxMut
    /\ delqBase + Len(Only(sigs, "delete")) <= MaxMut

Raise(name, a, exc) ==
    /\ op' = name /\ arg' = a /\ ret' = exc /\ out' = << >>
    /\ rt' = NoRT
    /\ UNCHANGED <<path, content, lsq, mvq, delq, listedFor, proxy, inv, lastLs>>

\* DeviceFileSystem(file_manager): empty path and content, then invalidate()
Init ==
    /\ path = << >>
    /\ content = << >>
    /\ lsq = ListArgs(InvalidateEmits(<< >>))
    /\ mvq = 0
    /\ delq = 0
    /\ listedFor = "(none)"
    /\ proxy = SortRows(<< >>)
    /\ op = "__init__"
    /\ arg = NoArg
    /\ out = InvalidateEmits(<< >>)
    /\ ret = "None"
    /\ rt = NoRT
    /\ inv = "one"
    /\ lastLs = Join(<< >>)

Invalidate ==
    /\ Fits(InvalidateEmits(path), lsq, mvq, delq)
    /\ Routed(InvalidateEmits(path), lsq, mvq, delq)
    /\ op' = "invalidate" /\ arg' = NoArg /\ ret' = "None"
    /\ rt' = NoRT
    /\ inv' = IF inv = "one" \/ inv = "two" THEN "two" ELSE "one"
    /\ UNCHANGED <<path, content, listedFor>>

\* the file manager answers the i-th outstanding list request with files
OnLs(i, files) ==
    /\ i \in 1..Len(lsq)
    /\ content' = OnLsContent(files, path)
    /\ Routed(OnLsEmits(content'), RemoveAt(lsq, i), mvq, delq)
    /\ listedFor' = lsq[i]
    /\ op' = "on_ls" /\ arg' = NoArg /\ ret' = "None"
    /\ rt' = IF rt.stage = 1 THEN [rt EXCEPT !.stage = 2] ELSE NoRT
    /\ inv' = CASE inv = "two" -> "applied1"
                [] inv = "applied1" -> "applied2"
                [] inv = "applied2" -> "applied2"
                [] OTHER -> "idle"
    /\ UNCHANGED path

\* the file manager answers the i-th outstanding list request with a failure
OnLsFail(i) ==
    /\ i \in 1..Len(lsq)
    /\ content' = OnLsFailContent
    /\ Fits(OnLsFailEmits, RemoveAt(lsq, i), mvq, delq)
    /\ Routed(OnLsFailEmits, RemoveAt(lsq, i), mvq, delq)
    /\ listedFor' = lsq[i]
    /\ op' = "on_ls_fail" /\ arg' = NoArg /\ ret' = "None"
    /\ rt' = NoRT
    /\ inv' = "idle"
    /\ UNCHANGED path

Completion(name, sigs, mvqBase, delqBase) ==
    /\ UNCHANGED <<path, content, listedFor>>
    /\ Fits(sigs, lsq, mvqBase, delqBase)
    /\ Routed(sigs, lsq, mvqBase, delqBase)
    /\ op' = name /\ arg' = NoArg /\ ret' = "None"
    /\ rt' = NoRT
    /\ inv' = "idle"

OnMv == mvq > 0 /\ Completion("on_mv", OnMvEmits(path), mvq - 1, delq)
OnMvFail == mvq > 0 /\ Completion("on_mv_fail", OnMvFailEmits(path), mvq - 1, delq)
OnDelete == delq > 0 /\ Completion("on_delete", OnDeleteEmits(path), mvq, delq - 1)
OnDeleteFail ==
    delq > 0 /\ Completion("on_delete_fail", OnDeleteFailEmits(path), mvq, delq - 1)

DoDelete(file) ==
    /\ Fits(DoDeleteEmits(path, file), lsq, mvq, delq)
    /\ Routed(DoDeleteEmits(path, file), lsq, mvq, delq)
    /\ op' = "do_delete" /\ arg' = [NoArg EXCEPT !.str = file] /\ ret' = "None"
    /\ rt' = NoRT
    /\ inv' = "idle"
    /\ UNCHANGED <<path, content, listedFor>>

IsDirectoryResult(c, row) ==
    IF ~InRange(c, row) THEN "IndexError"
    ELSE IF IsDir(PyAt(c, row)) THEN "True" ELSE "False"

IsDirectory(row) ==
    /\ op' = "is_directory" /\ arg' = [NoArg EXCEPT !.row = row]
    /\ ret' = IsDirectoryResult(content, row)
    /\ out' = << >>
    /\ rt' = NoRT
    /\ UNCHANGED <<path, content, lsq, mvq, delq, listedFor, proxy, inv, lastLs>>

\* flags(index): the default flags of a list row, with ItemIsEditable or not
FlagsResult_markerOnly(c, row) ==
    IF ~InRange(c, row) THEN "IndexError"
    ELSE IF Name(PyAt(c, row)) = ".." THEN "default"
    ELSE "default|ItemIsEditable"
FlagsResult(c, row) ==
    IF ~InRange(c, row) THEN "IndexError"
    ELSE IF Name(PyAt(c, row)) = ".." \/ Name(PyAt(c, row)) = "." THEN "default"
    ELSE "default|ItemIsEditable"

Flags(row) ==
    /\ op' = "flags" /\ arg' = [NoArg EXCEPT !.row = row]
    /\ ret' = FlagsResult(content, row)
    /\ out' = << >>
    /\ rt' = NoRT
    /\ UNCHANGED <<path, content, lsq, mvq, delq, listedFor, proxy, inv, lastLs>>

\* the proxy compares two rows of its source while it sorts
LessThanRows(left, right) ==
    /\ left \in 0..(Len(content) - 1)
    /\ right \in 0..(Len(content) - 1)
    /\ op' = "lessThan" /\ arg' = [NoArg EXCEPT !.row = left, !.row2 = right]
    /\ ret' = IF LessThan(PyAt(content, left), PyAt(content, right))
               THEN "True" ELSE "False"
    /\ out' = << >>
    /\ rt' = NoRT
    /\ UNCHANGED <<path, content, lsq, mvq, delq, listedFor, proxy, inv, lastLs>>

\* enter_directory emits list_files for the path as it is after the change
EnterDirectoryEmits_oldPath(pOld, pNew) == InvalidateEmits(pOld)
EnterDirectoryEmits(pOld, pNew) == InvalidateEmits(pNew)

EnterDirectory(row) ==
    LET a == [NoArg EXCEPT !.row = row] IN
    IF ~InRange(content, row) THEN Raise("enter_directory", a, "IndexError")
    ELSE LET e == PyAt(content, row) IN
         IF EnterRaises(path, e) THEN Raise("enter_directory", a, "IndexError")
         ELSE /\ Len(EnterDirectoryPath(path, e)) <= MaxDepth
              /\ path' = EnterDirectoryPath(path, e)
              /\ Fits(EnterDirectoryEmits(path, path'), lsq, mvq, delq)
              /\ Routed(EnterDirectoryEmits(path, path'), lsq, mvq, delq)
              /\ op' = "enter_directory" /\ arg' = a /\ ret' = "index(-1)"
              /\ rt' = IF Name(e) # ".." /\ IsDir(e)
                         THEN [stage |-> 1, p |-> path]
                       ELSE IF Name(e) = ".." /\ rt.stage = 2
                         THEN [rt EXCEPT !.stage = 3]
                       ELSE NoRT
              /\ inv' = "idle"
              /\ UNCHANGED <<content, listedFor>>

SetData(row, value, role) ==
    LET a == [NoArg EXCEPT !.row = row] IN
    IF ~InRange(content, row) THEN Raise("setData", a, "IndexError")
    ELSE IF SetDataRenames(role)
    THEN LET sigs == SetDataEmits(path, Name(PyAt(content, row)), value) IN
         /\ Fits(sigs, lsq, mvq, delq)
         /\ Routed(sigs, lsq, mvq, delq)
         /\ op' = "setData" /\ arg' = a /\ ret' = "True"
         /\ rt' = NoRT
         /\ inv' = "idle"
         /\ UNCHANGED <<path, content, listedFor>>
    ELSE /\ op' = "setData" /\ arg' = a /\ ret' = "False" /\ out' = << >>
         /\ rt' = NoRT
         /\ UNCHANGED <<path, content, lsq, mvq, delq, listedFor, proxy, inv, lastLs>>

Next ==
    \/ Invalidate
    \/ \E i \in 1..MaxPending, files \in Listings : OnLs(i, files)
    \/ \E i \in 1..MaxPending : OnLsFail(i)
    \/ OnMv
    \/ OnMvFail
    \/ OnDelete
    \/ OnDeleteFail
    \/ \E file \in DeleteNames : DoDelete(file)
    \/ \E row \in Rows : EnterDirectory(row)
    \/ \E row \in Rows, value \in Values, role \in Roles : SetData(row, value, role)

Spec == Init /\ [][Next]_vars

(* ---------------------------------------------------------------------- *)
(* The read-only queries, applied to the model after a list response       *)
(* ---------------------------------------------------------------------- *)
QInit ==
    \E files \in QueryListings, p \in { << >>, <<"alpha">> } :
        /\ path = p
        /\ content = OnLsContent(files, p)
        /\ lsq = << >>
        /\ mvq = 0
        /\ delq = 0
        /\ listedFor = Join(p)
        /\ proxy = SortRows(content)
        /\ op = "on_ls"
        /\ arg = NoArg
        /\ out = OnLsEmits(content)
        /\ ret = "None"
        /\ rt = NoRT
        /\ inv = "idle"
        /\ lastLs = Join(p)

QNext ==
    \/ \E row \in QueryRows : IsDirectory(row)
    \/ \E row \in QueryRows : Flags(row)
    \/ \E left, right \in QueryRows : LessThanRows(left, right)

QSpec == QInit /\ [][QNext]_vars

(* ---------------------------------------------------------------------- *)
(* Properties                                                              *)
(* ---------------------------------------------------------------------- *)
HasMarker(c) == \E i \in 1..Len(c) : Name(c[i]) = ".."
ProxyNames == [i \in 1..Len(proxy) |-> Name(proxy[i])]

\* C1: whenever every list request has been answered, the listing is the
\* answer to a request for the current path, with the parent marker only
\* when the path is not empty.
C1_ListingIsForCurrentPath ==
    lsq = << >> =>
        /\ listedFor = Join(path)
        /\ HasMarker(content) => Len(path) > 0

\* C2 as stated: the listing never holds ".." while the path is empty.
C2_NoMarkerAtRoot == Len(path) = 0 => ~HasMarker(content)

\* C2 amended: a listing installed by a list response holds ".." only when
\* the path is not empty at that moment; at the root ".." is seen only in a
\* stale listing, while a list request is still outstanding.
C2_MarkerAtRootOnlyWhileListing ==
    /\ (Len(path) = 0 /\ HasMarker(content)) => Len(lsq) > 0
    /\ (op \in {"on_ls", "on_ls_fail"} /\ Len(path) = 0) => ~HasMarker(content)

C2_Witness ==
    op = "enter_directory" /\ Len(path) = 0 /\ HasMarker(content) /\ Len(lsq) > 0

\* C3: enter_directory on a directory entry other than "..", then a
\* successful list response, then enter_directory on the ".." entry of the
\* new listing, leaves path as it was before the first step.
C3_RoundTrip ==
    /\ rt.stage = 2 => HasMarker(content)
    /\ rt.stage = 3 => path = rt.p

C3_Witness == rt.stage = 3 /\ Len(rt.p) > 0 /\ path = rt.p

\* C4: do_delete issues the delete and no list request; the completion of a
\* delete, success or failure, issues exactly one list request, for the
\* current path; neither changes path.
C4_DeleteThenOneList ==
    [][ /\ op' = "do_delete" =>
            /\ delq' = delq + 1
            /\ lsq' = lsq
            /\ path' = path
        /\ op' \in {"on_delete", "on_delete_fail"} =>
            /\ delq' = delq - 1
            /\ lsq' = Append(lsq, Join(path'))
            /\ ListArgs(out') = << Join(path') >>
            /\ path' = path ]_vars

C4_Witness ==
    op = "on_delete_fail" /\ Len(path) > 0 /\ ListArgs(out) = << Join(path) >>

\* C5 as stated: setData issues no list request; only the completion of the
\* move does.
C5_NoListBeforeCompletion == op = "setData" => ListArgs(out) = << >>

\* C5 amended: a rename through setData issues one list request at once,
\* with the rename, and the completion of the move, success or failure,
\* issues exactly one more, for the current path.
C5_RenameListsAtOnceAndOnCompletion ==
    [][ /\ (op' = "setData" /\ ret' = "True") =>
            /\ mvq' = mvq + 1
            /\ lsq' = Append(lsq, Join(path'))
            /\ path' = path
        /\ op' \in {"on_mv", "on_mv_fail"} =>
            /\ mvq' = mvq - 1
            /\ lsq' = Append(lsq, Join(path'))
            /\ ListArgs(out') = << Join(path') >>
            /\ path' = path ]_vars

C5_Witness ==
    op = "on_mv_fail" /\ Len(path) > 0 /\ ListArgs(out) = << Join(path) >>

\* C6: setData on the row of the ".." entry returns False and emits nothing.
C6_MarkerRenameRejected ==
    (/\ op = "setData"
     /\ InRange(content, arg.row)
     /\ Name(PyAt(content, arg.row)) = "..") =>
        (ret = "False" /\ out = << >>)

\* C7: is_directory with a row below 0 or not below the number of entries
\* raises; it returns no boolean.
C7_OutOfRangeFails ==
    (op = "is_directory" /\ (arg.row < 0 \/ arg.row >= Len(content))) =>
        ret = "IndexError"

\* C8: a failed list response empties the listing, emits dataChanged, keeps
\* path and issues no list request.
C8_ListFailureClears ==
    [][ op' = "on_ls_fail" =>
            /\ content' = << >>
            /\ path' = path
            /\ out' = << DataChanged(0, 0, 0, 0) >>
            /\ Len(lsq') = Len(lsq) - 1 ]_vars

C8_Witness ==
    op = "on_ls_fail" /\ Len(path) > 0 /\ content = << >> /\ lsq = << >>

\* C9: after two invalidate calls with no list response between them, a
\* listing is applied once, not twice.
C9_OneListingApplied == inv # "applied2"

\* C10: the ".." entry, when the listing has one, is row 0 of the proxy, for
\* the listing shown and for every listing on_ls can install below the root;
\* at path "alpha" with the answer [("x.txt", False, 5)] the proxy shows
\* "..", "x.txt".
C10_MarkerFirst ==
    /\ Len(proxy) = Len(content)
    /\ \A l \in QueryListings : Name(SortRows(Append(l, Marker))[1]) = ".."
    /\ HasMarker(content) => ProxyNames[1] = ".."
    /\ (path = <<"alpha">> /\ content = << <<"x.txt", FALSE, 5>>, Marker >>) =>
            ProxyNames = << "..", "x.txt" >>

C10_Witness ==
    /\ op = "on_ls"
    /\ path = <<"alpha">>
    /\ content = << <<"x.txt", FALSE, 5>>, Marker >>
    /\ ProxyNames = << "..", "x.txt" >>

\* the entries the last query was about
LeftEntry == PyAt(content, arg.row)
RightEntry == PyAt(content, arg.row2)

\* C11: of two entries of different kinds, neither named "..", lessThan
\* puts the directory first whatever the names, and the proxy shows every
\* directory above every file.
C11_DirectoryBeforeFile ==
    /\ (/\ op = "lessThan"
        /\ Name(LeftEntry) # ".." /\ Name(RightEntry) # ".."
        /\ IsDir(LeftEntry) # IsDir(RightEntry)) =>
            ret = (IF IsDir(LeftEntry) THEN "True" ELSE "False")
    /\ \A i, j \in 1..Len(proxy) :
            (/\ Name(proxy[i]) # ".." /\ Name(proxy[j]) # ".."
             /\ IsDir(proxy[i]) /\ ~IsDir(proxy[j])) => i < j

C11_Witness ==
    /\ op = "lessThan"
    /\ LeftEntry = <<"b.txt", FALSE, 120>>
    /\ RightEntry = <<"Beta", TRUE, 0>>
    /\ ret = "False"
    /\ proxy = << RightEntry, LeftEntry >>

SameIgnoringCase(a, b) ==
    ~LexLess(Codes(Name(a)), Codes(Name(b))) /\ ~LexLess(Codes(Name(b)), Codes(Name(a)))

\* C12: over the entries of a listing, the ".." entry included, lessThan is
\* irreflexive, asymmetric and transitive, and two entries neither of which
\* is less than the other have the same kind and the same name ignoring case.
C12_StrictWeakOrdering ==
    /\ (op = "lessThan" /\ arg.row = arg.row2) => ret = "False"
    /\ \A i, j, k \in 1..Len(content) :
        LET a == content[i]
            b == content[j]
            c == content[k]
        IN /\ ~LessThan(a, a)
           /\ ~(LessThan(a, b) /\ LessThan(b, a))
           /\ (LessThan(a, b) /\ LessThan(b, c)) => LessThan(a, c)
           /\ (~LessThan(a, b) /\ ~LessThan(b, a)) =>
                (IsDir(a) = IsDir(b) /\ SameIgnoringCase(a, b))

\* C13 as stated: flags marks an entry editable exactly when it is not "..".
C13_EditableUnlessMarker ==
    (op = "flags" /\ InRange(content, arg.row)) =>
        (ret = "default|ItemIsEditable" <=> Name(LeftEntry) # "..")

\* C13 amended: flags marks an entry editable exactly when its name is
\* neither ".." nor ".".
C13_EditableUnlessMarkerOrDot ==
    (op = "flags" /\ InRange(content, arg.row)) =>
        /\ ret \in {"default", "default|ItemIsEditable"}
        /\ ret = "default|ItemIsEditable" <=>
                (Name(LeftEntry) # ".." /\ Name(LeftEntry) # ".")

C13_Witness ==
    op = "flags" /\ InRange(content, arg.row) /\ Name(LeftEntry) = "." /\ ret = "default"

\* C14: in every reachable state at most one list request is outstanding.
C14_AtMostOneOutstanding == Len(lsq) <= 1

\* C15: the dataChanged that on_ls emits spans the rows of the listing it
\* installed: its first index is row 0, its last index is the last row.
C15_DataChangedCoversRows ==
    (op = "on_ls" /\ Len(content) > 0) =>
        /\ Len(Only(out, "dataChanged")) = 1
        /\ Only(out, "dataChanged")[1].rng[1] = 0
        /\ Only(out, "dataChanged")[1].rng[3] = Len(content) - 1

\* C16: enter_directory on a row of the listing returns the sentinel root
\* index and issues exactly one list request, for the path after the call;
\* the path loses its last segment for "..", gains the name for a directory,
\* and stays as it was for a file.
C16_EnterAlwaysLists ==
    [][ (op' = "enter_directory" /\ arg'.row >= 0 /\ arg'.row < Len(content)) =>
            LET e == PyAt(content, arg'.row) IN
            /\ ret' = "index(-1)"
            /\ ListArgs(out') = << Join(path') >>
            /\ Len(lsq') = Len(lsq) + 1
            /\ Name(e) = ".." => path' = SubSeq(path, 1, Len(path) - 1)
            /\ (Name(e) # ".." /\ IsDir(e)) => path' = Append(path, Name(e))
            /\ (Name(e) # ".." /\ ~IsDir(e)) => path' = path ]_vars

\* C17: only a list response changes the listing: every other operation
\* leaves content as it was, emits no dataChanged and leaves the proxy rows.
C17_OnlyListResponsesChangeListing ==
    [][ op' \notin {"on_ls", "on_ls_fail"} =>
            /\ content' = content
            /\ Only(out', "dataChanged") = << >>
            /\ proxy' = proxy ]_vars

C17_Witness ==
    /\ op = "on_mv"
    /\ Len(content) > 0
    /\ Only(out, "dataChanged") = << >>
    /\ ListArgs(out) = << Join(path) >>

\* C18: whenever enter_directory selects the ".." entry, by a row of the
\* listing shown or by the sentinel root index, the path is not empty.
C18_ParentOnlyBelowRoot ==
    [][ (/\ op' = "enter_directory"
         /\ InRange(content, arg'.row)
         /\ Name(PyAt(content, arg'.row)) = "..") =>
            (Len(path) > 0 /\ ret' # "IndexError") ]_vars

\* C19: the full path of a rename or a delete of an entry of the listing
\* shown is the directory that listing was fetched for, joined with the
\* entry's name.
C19_PathsFromListedDirectory ==
    /\ (op = "setData" /\ ret = "True") =>
            Only(out, "rename")[1].args[1] =
                listedFor \o "/" \o Name(PyAt(content, arg.row))
    /\ (op = "do_delete" /\ \E i \in 1..Len(content) : Name(content[i]) = arg.str) =>
            Only(out, "delete")[1].args[1] = listedFor \o "/" \o arg.str

\* C20: the list request issued last is for the current path, and every
\* step that changes the path issues, in that step, one list request for
\* the new path.
C20_LastRequestTargetsPath ==
    /\ [](lastLs = Join(path))
    /\ [][ path' # path => ListArgs(out') = << Join(path') >> ]_vars

C20_Witness ==
    /\ op = "enter_directory"
    /\ ret = "index(-1)"
    /\ Len(path) > 0
    /\ Len(lsq) = 2
    /\ lsq[1] # Join(path)
    /\ lastLs = Join(path)

====
